---- MODULE Spec2Model ----
(***************************************************************************)
(* Model of gpu_temp_hwmon.c: a platform driver/device pair that registers *)
(* a hwmon device with three read-only attributes.  temp1_input reads the  *)
(* text file /tmp/gpu_max_temp and parses it with kstrtoint; temp1_max and  *)
(* temp1_crit return literals.                                             *)
(*                                                                         *)
(* Text is a sequence of one-character strings.  Numbers that may exceed   *)
(* the checker's native integers (kstrtoull accumulates in 64 bits) are     *)
(* kept as magnitudes: sequences of digit values, most significant first,  *)
(* without leading zeros; the empty sequence is zero.  A signed value is a *)
(* record [neg, mag].                                                      *)
(***************************************************************************)
EXTENDS Integers, Sequences, FiniteSets, TLC

VARIABLES
    phase,        \* "unloaded" | "loaded" | "failed" | "removed": one load of the module
    initRet,      \* what gpu_temp_init returned (meaningful once phase # "unloaded")
    probeRet,     \* what gpu_temp_probe returned to the driver core
    probed,       \* whether the driver core called gpu_temp_probe
    pdev,         \* static struct platform_device *pdev
    hwmon_dev,    \* static struct device *hwmon_dev
    driverRegs,   \* registrations of gpu_temp_driver held by the platform bus
    deviceRegs,   \* registrations of the platform device
    hwmonRegs,    \* registrations of the hwmon device "gpu_max_temp"
    srcKind,      \* what TEMP_FILE names: "missing" | "noaccess" | "dir" | "file"
    srcContent,   \* the bytes of TEMP_FILE when it is a file
    openFiles,    \* the struct file handles currently open
    pc,           \* per thread: position inside temp1_input_show
    file,         \* per thread: local `file` (0: none)
    fnode,        \* per thread: the inode a handle still to be read kept when the path was unlinked
    temp_str,     \* per thread: local buffer, the bytes kernel_read stored
    ret,          \* per thread: local `ret` after kernel_read
    res           \* per thread: the last completed show call [op, buf, rv]

vars == <<phase, initRet, probeRet, probed, pdev, hwmon_dev, driverRegs, deviceRegs,
          hwmonRegs, srcKind, srcContent, openFiles, pc, file, fnode, temp_str, ret, res>>

regVars == <<phase, initRet, probeRet, probed, pdev, hwmon_dev, driverRegs, deviceRegs, hwmonRegs>>
srcVars == <<srcKind, srcContent>>
thrVars == <<openFiles, pc, file, fnode, temp_str, ret, res>>

----------------------------------------------------------------------------
(* Bounds *)

NumThreads == 2
MaxShort == 3
MaxPad == 13

(* Program constants *)

BufSize == 16

Threads == 1..NumThreads

----------------------------------------------------------------------------
(* Characters and magnitudes *)

DigitChars == {"0", "1", "2", "3", "4", "5", "6", "7", "8", "9"}

DigitVal(c) ==
    CASE c = "0" -> 0 [] c = "1" -> 1 [] c = "2" -> 2 [] c = "3" -> 3 [] c = "4" -> 4
      [] c = "5" -> 5 [] c = "6" -> 6 [] c = "7" -> 7 [] c = "8" -> 8 [] c = "9" -> 9

DigitChar(d) == CHOOSE c \in DigitChars : DigitVal(c) = d

Min(a, b) == IF a < b THEN a ELSE b

\* a < b on magnitudes (no leading zeros): shorter is smaller, else first difference decides
MagLess(a, b) ==
    \/ Len(a) < Len(b)
    \/ /\ Len(a) = Len(b)
       /\ \E i \in 1..Len(a) : /\ a[i] < b[i]
                               /\ \A j \in 1..(i - 1) : a[j] = b[j]

MagLeq(a, b) == a = b \/ MagLess(a, b)

UINT64_MAX_MAG == <<1,8,4,4,6,7,4,4,0,7,3,7,0,9,5,5,1,6,1,5>>
INT64_MAX_MAG  == <<9,2,2,3,3,7,2,0,3,6,8,5,4,7,7,5,8,0,7>>
INT64_MIN_MAG  == <<9,2,2,3,3,7,2,0,3,6,8,5,4,7,7,5,8,0,8>>
INT_MAX_MAG    == <<2,1,4,7,4,8,3,6,4,7>>
INT_MIN_MAG    == <<2,1,4,7,4,8,3,6,4,8>>

Zero == [neg |-> FALSE, mag |-> <<>>]

----------------------------------------------------------------------------
(* lib/kstrtox.c as called at line 46: kstrtoint(temp_str, 10, &temp_millidegrees) *)

\* res * 10 + val
MulAdd10(mag, val) == IF mag = <<>> /\ val = 0 THEN <<>> ELSE Append(mag, val)

\* _parse_integer: consume leading digits; rv counts them; overflow is flagged when
\* res * 10 + val does not fit 64 bits (the loop goes on, the value is then unused)
RECURSIVE parse_integer_loop(_, _, _, _)
parse_integer_loop(s, rv, mag, ovf) ==
    IF s = <<>> \/ Head(s) \notin DigitChars
    THEN [rv |-> rv, mag |-> mag, overflow |-> ovf]
    ELSE LET next == MulAdd10(mag, DigitVal(Head(s)))
         IN  parse_integer_loop(Tail(s), rv + 1, next,
                                ovf \/ MagLess(UINT64_MAX_MAG, next))

parse_integer(s) == parse_integer_loop(s, 0, <<>>, FALSE)

\* _kstrtoull: digits, then at most one newline, then the end of the string
kstrtoull_body(s) ==
    LET p    == parse_integer(s)
        rest == SubSeq(s, p.rv + 1, Len(s))
        end  == IF rest # <<>> /\ Head(rest) = "\n" THEN Tail(rest) ELSE rest
    IN  IF p.overflow THEN [err |-> -34, mag |-> <<>>]
        ELSE IF p.rv = 0 THEN [err |-> -22, mag |-> <<>>]
        ELSE IF end # <<>> THEN [err |-> -22, mag |-> <<>>]
        ELSE [err |-> 0, mag |-> p.mag]

\* kstrtoull: one leading '+' is skipped
kstrtoull(s) ==
    IF s # <<>> /\ Head(s) = "+" THEN kstrtoull_body(Tail(s)) ELSE kstrtoull_body(s)

\* kstrtoll: a leading '-' negates; the magnitude must fit a signed 64-bit value
kstrtoll(s) ==
    IF s # <<>> /\ Head(s) = "-"
    THEN LET r == kstrtoull_body(Tail(s))
         IN  IF r.err < 0 THEN [err |-> r.err, val |-> Zero]
             ELSE IF MagLess(INT64_MIN_MAG, r.mag) THEN [err |-> -34, val |-> Zero]
             ELSE [err |-> 0, val |-> [neg |-> r.mag # <<>>, mag |-> r.mag]]
    ELSE LET r == kstrtoull(s)
         IN  IF r.err < 0 THEN [err |-> r.err, val |-> Zero]
             ELSE IF MagLess(INT64_MAX_MAG, r.mag) THEN [err |-> -34, val |-> Zero]
             ELSE [err |-> 0, val |-> [neg |-> FALSE, mag |-> r.mag]]

\* (int)tmp = tmp
FitsInt(v) == IF v.neg THEN MagLeq(v.mag, INT_MIN_MAG) ELSE MagLeq(v.mag, INT_MAX_MAG)

\* a plausible slip: kstrtouint, which rejects every negative text
kstrtoint_unsigned(s) ==
    LET r == kstrtoull(s)
    IN  IF r.err < 0 THEN [err |-> r.err, val |-> Zero]
        ELSE IF ~MagLeq(r.mag, INT_MAX_MAG) THEN [err |-> -34, val |-> Zero]
        ELSE [err |-> 0, val |-> [neg |-> FALSE, mag |-> r.mag]]

\* a plausible slip: simple_strtol-style parsing, which stops at the first non-digit
kstrtoint_lenient(s) ==
    LET neg == s # <<>> /\ Head(s) = "-"
        p   == parse_integer(IF neg THEN Tail(s) ELSE s)
        v   == [neg |-> neg /\ p.mag # <<>>, mag |-> p.mag]
    IN  IF FitsInt(v) THEN [err |-> 0, val |-> v] ELSE [err |-> -34, val |-> Zero]

\* kstrtoint: kstrtoll, then the value must fit an int
kstrtoint(s) ==
    LET r == kstrtoll(s)
    IN  IF r.err < 0 THEN r
        ELSE IF ~FitsInt(r.val) THEN [err |-> -34, val |-> Zero]
        ELSE r

----------------------------------------------------------------------------
(* sprintf *)

MagText(mag) == IF mag = <<>> THEN <<"0">> ELSE [i \in 1..Len(mag) |-> DigitChar(mag[i])]

\* a plausible slip: "%d" without the newline
sprintf_d_bare(v) == (IF v.neg THEN <<"-">> ELSE <<>>) \o MagText(v.mag)

\* sprintf(buf, "%d\n", v): the text written to buf
sprintf_d(v) == (IF v.neg THEN <<"-">> ELSE <<>>) \o MagText(v.mag) \o <<"\n">>

----------------------------------------------------------------------------
(* The external source, TEMP_FILE "/tmp/gpu_max_temp", and what an outside writer puts there *)

Alphabet == {"0", "4", "-", "+", "\n", "x"}

ShortTexts == UNION {[1..n -> Alphabet] : n \in 0..MaxShort}

Zeros(k) == [i \in 1..k |-> "0"]

NumberTexts ==
    { <<"4","2","0","0","0">>,
      <<"1","2","3","4","5","6">>,
      <<"2","1","4","7","4","8","3","6","4","7">>,
      <<"2","1","4","7","4","8","3","6","4","8">>,
      <<"2","1","4","7","4","8","3","6","4","9">> }

Signs == { <<>>, <<"-">>, <<"+">> }

Tails == { <<>>, <<"\n">>, <<"x">>, <<"\n","\n">> }

LongTexts ==
    { sg \o Zeros(k) \o n \o tl : sg \in Signs, k \in 0..MaxPad, n \in NumberTexts, tl \in Tails }

\* the contents the parsing specification starts from
ParseContents == ShortTexts \cup LongTexts

\* the contents the outside writer chooses from in the system specification
SysContents ==
    { <<>>,
      <<"4","2","0","0","0","\n">>,
      <<"x">>,
      Zeros(10) \o <<"1","2","3","4","5","6">> }

NoNode == [linked |-> TRUE, kind |-> "none", content |-> <<>>]

\* what thread t's open handle refers to: the path's current inode while still linked,
\* otherwise the inode as it was when the path was removed
NodeOf(t) ==
    IF fnode[t].linked THEN [kind |-> srcKind, content |-> srcContent]
    ELSE [kind |-> fnode[t].kind, content |-> fnode[t].content]

----------------------------------------------------------------------------
(* temp1_input_show, lines 28-53 *)

NoRes == [op |-> "none", buf |-> <<>>, rv |-> 0]

\* a plausible slip: surface the open error instead of the fallback
OpenFailResult_errno == [op |-> "input", buf |-> <<>>, rv |-> -2]

\* line 40: return sprintf(buf, "0\n")
OpenFailResult == [op |-> "input", buf |-> <<"0", "\n">>, rv |-> 2]

\* filp_open(TEMP_FILE, O_RDONLY, 0) fails when the path is missing or not readable
OpenFails == srcKind \in {"missing", "noaccess"}

\* the lowest handle not in use
FreshFile == CHOOSE f \in 1..(NumThreads + 1) :
                 /\ f \notin openFiles
                 /\ \A g \in 1..(f - 1) : g \in openFiles

\* lines 38-41: open; on failure the whole call returns "0\n"
InputOpen(t) ==
    /\ phase = "loaded"
    /\ hwmonRegs > 0
    /\ pc[t] = "idle"
    /\ IF OpenFails
       THEN /\ res' = [res EXCEPT ![t] = OpenFailResult]
            /\ UNCHANGED <<openFiles, pc, file, fnode, temp_str, ret>>
       ELSE /\ file' = [file EXCEPT ![t] = FreshFile]
            /\ openFiles' = openFiles \cup {FreshFile}
            /\ fnode' = [fnode EXCEPT ![t] = NoNode]
            /\ pc' = [pc EXCEPT ![t] = "opened"]
            /\ res' = [res EXCEPT ![t] = NoRes]
            /\ UNCHANGED <<temp_str, ret>>
    /\ UNCHANGED <<regVars, srcVars>>

\* kernel_read(file, temp_str, sizeof(temp_str) - 1, &pos) with pos = 0
kernel_read(node, count) ==
    IF node.kind = "dir" THEN [ret |-> -21, data |-> <<>>]
    ELSE LET n == Min(Len(node.content), count)
         IN  [ret |-> n, data |-> SubSeq(node.content, 1, n)]

\* a plausible slip: a static buffer shared by all callers
StoreRead_static(t, data) == [u \in Threads |-> data]

\* line 32: temp_str is a local of the call
StoreRead(t, data) == [temp_str EXCEPT ![t] = data]

\* line 43
InputRead(t) ==
    /\ pc[t] = "opened"
    /\ LET r == kernel_read(NodeOf(t), BufSize - 1)
       IN  /\ ret' = [ret EXCEPT ![t] = r.ret]
           /\ temp_str' = StoreRead(t, r.data)
    /\ pc' = [pc EXCEPT ![t] = "read"]
    /\ fnode' = [fnode EXCEPT ![t] = NoNode]
    /\ UNCHANGED <<regVars, srcVars, openFiles, file, res>>

\* lines 33, 44-49: temp_millidegrees after the parse
ParsedTemp(t) ==
    IF ret[t] > 0
    THEN LET r == kstrtoint(temp_str[t])
         IN  IF r.err < 0 THEN Zero ELSE r.val
    ELSE Zero

\* a plausible slip: returning early on a failed or empty read, before the close
FilesAfterShow_earlyReturn(t) == IF ret[t] > 0 THEN openFiles \ {file[t]} ELSE openFiles

\* line 51: filp_close(file, NULL) on every path that opened
FilesAfterShow(t) == openFiles \ {file[t]}

\* lines 44-52: parse, close, format
InputFinish(t) ==
    /\ pc[t] = "read"
    /\ openFiles' = FilesAfterShow(t)
    /\ LET out == sprintf_d(ParsedTemp(t))
       IN  res' = [res EXCEPT ![t] = [op |-> "input", buf |-> out, rv |-> Len(out)]]
    /\ pc' = [pc EXCEPT ![t] = "idle"]
    /\ file' = [file EXCEPT ![t] = 0]
    /\ UNCHANGED fnode
    /\ temp_str' = [temp_str EXCEPT ![t] = <<>>]
    /\ ret' = [ret EXCEPT ![t] = 0]
    /\ UNCHANGED <<regVars, srcVars>>

----------------------------------------------------------------------------
(* temp1_max_show and temp1_crit_show, lines 55-65 *)

\* a plausible slip: the two literals swapped
MaxResult_swapped == [op |-> "max", buf |-> <<"9","5","0","0","0","\n">>, rv |-> 6]

\* line 58: return sprintf(buf, "90000\n")
MaxResult == [op |-> "max", buf |-> <<"9","0","0","0","0","\n">>, rv |-> 6]

\* line 64: return sprintf(buf, "95000\n")
CritResult == [op |-> "crit", buf |-> <<"9","5","0","0","0","\n">>, rv |-> 6]

MaxShow(t) ==
    /\ phase = "loaded"
    /\ hwmonRegs > 0
    /\ pc[t] = "idle"
    /\ res' = [res EXCEPT ![t] = MaxResult]
    /\ UNCHANGED <<regVars, srcVars, openFiles, pc, file, fnode, temp_str, ret>>

CritShow(t) ==
    /\ phase = "loaded"
    /\ hwmonRegs > 0
    /\ pc[t] = "idle"
    /\ res' = [res EXCEPT ![t] = CritResult]
    /\ UNCHANGED <<regVars, srcVars, openFiles, pc, file, fnode, temp_str, ret>>

----------------------------------------------------------------------------
(* The outside writer of TEMP_FILE; the provider has no part in these steps *)

\* the path is overwritten in place: handles opened on it see the new bytes
WriterWrite(c) ==
    /\ srcKind = "file"
    /\ srcContent # c
    /\ srcContent' = c
    /\ UNCHANGED <<regVars, srcKind, thrVars>>

\* the path is unlinked: a handle opened on it and not yet read keeps the inode as it was
WriterRemove ==
    /\ srcKind # "missing"
    /\ srcKind' = "missing"
    /\ srcContent' = <<>>
    /\ fnode' = [t \in Threads |->
                    IF pc[t] = "opened" /\ fnode[t].linked
                    THEN [linked |-> FALSE, kind |-> srcKind, content |-> srcContent]
                    ELSE fnode[t]]
    /\ UNCHANGED <<regVars, openFiles, pc, file, temp_str, ret, res>>

\* the path is created anew: a file, an unreadable file, or a directory
WriterCreate(k, c) ==
    /\ srcKind = "missing"
    /\ srcKind' = k
    /\ srcContent' = IF k = "file" THEN c ELSE <<>>
    /\ UNCHANGED <<regVars, thrVars>>

----------------------------------------------------------------------------
(* Module lifecycle, lines 80-119 *)

Errnos == {-12, -16}

NullPtr == [kind |-> "null", err |-> 0]
DevPtr  == [kind |-> "dev", err |-> 0]
ErrPtr(e) == [kind |-> "err", err |-> e]

Pointers == {DevPtr} \cup {ErrPtr(e) : e \in Errnos}

IS_ERR(p) == p.kind = "err"
PTR_ERR(p) == p.err
PTR_ERR_OR_ZERO(p) == IF IS_ERR(p) THEN PTR_ERR(p) ELSE 0

\* lines 80-87: gpu_temp_probe, hw being what devm_hwmon_device_register_with_groups returned
gpu_temp_probe(hw) ==
    /\ probed' = TRUE
    /\ hwmon_dev' = hw
    /\ hwmonRegs' = IF IS_ERR(hw) THEN hwmonRegs ELSE hwmonRegs + 1
    /\ probeRet' = PTR_ERR_OR_ZERO(hw)

\* lines 100-102: platform_driver_register failed
InitDriverFailed(drv) ==
    /\ initRet' = drv
    /\ phase' = "failed"
    /\ UNCHANGED <<probeRet, probed, pdev, hwmon_dev, driverRegs, deviceRegs, hwmonRegs>>

\* a plausible slip: returning the error without unregistering the driver
InitDeviceFailed_noUnwind(dev) ==
    /\ pdev' = dev
    /\ driverRegs' = driverRegs + 1
    /\ initRet' = PTR_ERR(dev)
    /\ phase' = "failed"
    /\ UNCHANGED <<probeRet, probed, hwmon_dev, deviceRegs, hwmonRegs>>

\* lines 104-108: platform_device_register_simple failed after the driver was registered
InitDeviceFailed(dev) ==
    /\ pdev' = dev
    /\ driverRegs' = (driverRegs + 1) - 1
    /\ initRet' = PTR_ERR(dev)
    /\ phase' = "failed"
    /\ UNCHANGED <<probeRet, probed, hwmon_dev, deviceRegs, hwmonRegs>>

\* lines 104-111: the device is added; the driver core binds it to gpu_temp_driver and
\* calls gpu_temp_probe; the device stays registered whatever probe returns
InitRegistered(dev, hw) ==
    /\ pdev' = dev
    /\ driverRegs' = driverRegs + 1
    /\ deviceRegs' = deviceRegs + 1
    /\ gpu_temp_probe(hw)
    /\ initRet' = 0
    /\ phase' = "loaded"

\* lines 96-112
gpu_temp_init ==
    /\ phase = "unloaded"
    /\ \E drv \in {0} \cup Errnos, dev \in Pointers, hw \in Pointers :
          IF drv # 0 THEN InitDriverFailed(drv)
          ELSE IF IS_ERR(dev) THEN InitDeviceFailed(dev)
          ELSE InitRegistered(dev, hw)
    /\ UNCHANGED <<srcVars, thrVars>>

\* a plausible slip: the driver is left registered
DriversAfterExit_kept == driverRegs

\* line 117: platform_driver_unregister(&gpu_temp_driver)
DriversAfterExit == driverRegs - 1

\* lines 114-119; the module is unloaded only when no show call is in flight.
\* platform_device_unregister releases the device's managed resources, the hwmon
\* device among them
gpu_temp_exit ==
    /\ phase = "loaded"
    /\ \A t \in Threads : pc[t] = "idle"
    /\ deviceRegs' = deviceRegs - 1
    /\ hwmonRegs' = IF IS_ERR(hwmon_dev) THEN hwmonRegs ELSE hwmonRegs - 1
    /\ driverRegs' = DriversAfterExit
    /\ phase' = "removed"
    /\ UNCHANGED <<initRet, probeRet, probed, pdev, hwmon_dev, srcVars, thrVars>>

----------------------------------------------------------------------------
(* Specifications *)

IdleThreads ==
    /\ openFiles = {}
    /\ pc = [t \in Threads |-> "idle"]
    /\ file = [t \in Threads |-> 0]
    /\ fnode = [t \in Threads |-> NoNode]
    /\ temp_str = [t \in Threads |-> <<>>]
    /\ ret = [t \in Threads |-> 0]
    /\ res = [t \in Threads |-> NoRes]

SourceIn(contents) ==
    \/ srcKind \in {"missing", "noaccess", "dir"} /\ srcContent = <<>>
    \/ srcKind = "file" /\ srcContent \in contents

\* before insmod; the source is in any state
Init ==
    /\ phase = "unloaded"
    /\ initRet = 0
    /\ probeRet = 0
    /\ probed = FALSE
    /\ pdev = NullPtr
    /\ hwmon_dev = NullPtr
    /\ driverRegs = 0
    /\ deviceRegs = 0
    /\ hwmonRegs = 0
    /\ SourceIn(SysContents)
    /\ IdleThreads

Next ==
    \/ gpu_temp_init
    \/ gpu_temp_exit
    \/ \E t \in Threads : InputOpen(t)
    \/ \E t \in Threads : InputRead(t)
    \/ \E t \in Threads : InputFinish(t)
    \/ \E t \in Threads : MaxShow(t)
    \/ \E t \in Threads : CritShow(t)
    \/ \E c \in SysContents : WriterWrite(c)
    \/ WriterRemove
    \/ \E k \in {"file", "noaccess", "dir"}, c \in SysContents : WriterCreate(k, c)

Spec == Init /\ [][Next]_vars

\* the module loaded and bound, the source holding any of ParseContents
InitParse ==
    /\ phase = "loaded"
    /\ initRet = 0
    /\ probeRet = 0
    /\ probed = TRUE
    /\ pdev = DevPtr
    /\ hwmon_dev = DevPtr
    /\ driverRegs = 1
    /\ deviceRegs = 1
    /\ hwmonRegs = 1
    /\ SourceIn(ParseContents)
    /\ IdleThreads

\* one caller querying temp1_input, the source left alone
NextParse ==
    \/ InputOpen(1)
    \/ InputRead(1)
    \/ InputFinish(1)

SpecParse == InitParse /\ [][NextParse]_vars

----------------------------------------------------------------------------
(* What a text denotes, stated on the text itself (not by the parser above) *)

IsDigits(s) == s # <<>> /\ \A i \in 1..Len(s) : s[i] \in DigitChars

StripNewline(s) == IF s # <<>> /\ s[Len(s)] = "\n" THEN SubSeq(s, 1, Len(s) - 1) ELSE s

HasSign(s) == s # <<>> /\ s[1] \in {"-", "+"}

DigitsOf(s) == LET b == StripNewline(s) IN IF HasSign(b) THEN Tail(b) ELSE b

\* an optional sign, one or more digits, an optional final newline
WellFormed(s) == IsDigits(DigitsOf(s))

\* the digits without leading zeros
Canonical(d) ==
    LET nz == {i \in 1..Len(d) : d[i] # "0"}
    IN  IF nz = {} THEN <<"0">>
        ELSE SubSeq(d, CHOOSE i \in nz : \A j \in nz : i <= j, Len(d))

IsNegative(s) == s[1] = "-" /\ Canonical(DigitsOf(s)) # <<"0">>

\* the decimal text of the integer N that the well-formed text s denotes
DecimalOf(s) == (IF IsNegative(s) THEN <<"-">> ELSE <<>>) \o Canonical(DigitsOf(s))

MagOf(d) == IF d = <<"0">> THEN <<>> ELSE [i \in 1..Len(d) |-> DigitVal(d[i])]

\* N lies in [-2147483648, 2147483647]
InIntRange(s) ==
    MagLeq(MagOf(Canonical(DigitsOf(s))), IF IsNegative(s) THEN INT_MIN_MAG ELSE INT_MAX_MAG)

Line(text) == text \o <<"\n">>

FirstBytes(s) == SubSeq(s, 1, Min(Len(s), BufSize - 1))

\* the reading a text of at most BufSize - 1 bytes stands for: its integer when it is a
\* well-formed int, otherwise 0
ReadingOf(bytes) ==
    IF WellFormed(bytes) /\ InIntRange(bytes) THEN Line(DecimalOf(bytes)) ELSE <<"0", "\n">>

\* a completed temp1_input query of thread t
InputDone(t) == pc[t] = "idle" /\ res[t].op = "input"

----------------------------------------------------------------------------
(* C1 *)

\* C1 as stated: whenever the source holds a well-formed decimal integer N, of any sign,
\* magnitude or length, a completed temp1_input query returns N
C1_AnyInteger ==
    (InputDone(1) /\ srcKind = "file" /\ WellFormed(srcContent))
        => res[1].buf = Line(DecimalOf(srcContent))

\* C1 amended: whenever the source holds a well-formed decimal integer N that fits an int
\* and whose text is at most BufSize - 1 = 15 bytes, a completed temp1_input query returns N
C1_IntWithinBuffer ==
    (InputDone(1) /\ srcKind = "file" /\ WellFormed(srcContent)
       /\ Len(srcContent) <= BufSize - 1 /\ InIntRange(srcContent))
        => /\ res[1].buf = Line(DecimalOf(srcContent))
           /\ res[1].rv = Len(res[1].buf)

C1_Witness ==
    /\ InputDone(1)
    /\ srcKind = "file"
    /\ srcContent = <<"-","0","0","2","1","4","7","4","8","3","6","4","8","\n">>
    /\ res[1].buf = <<"-","2","1","4","7","4","8","3","6","4","8","\n">>

----------------------------------------------------------------------------
(* C3 *)

\* text is the decimal form of an int followed by exactly one newline
IsIntLine(text) ==
    /\ Len(text) >= 2
    /\ text[Len(text)] = "\n"
    /\ LET body == SubSeq(text, 1, Len(text) - 1)
           d    == IF body[1] = "-" THEN Tail(body) ELSE body
       IN  /\ IsDigits(d)
           /\ Canonical(d) = d
           /\ body # <<"-", "0">>
           /\ MagLeq(MagOf(d), IF body[1] = "-" THEN INT_MIN_MAG ELSE INT_MAX_MAG)

\* C3 as stated: whatever the source, a completed temp1_input query produces a
\* non-negative integer as decimal text followed by exactly one newline
C3_NonNegative ==
    InputDone(1) => (IsIntLine(res[1].buf) /\ res[1].buf[1] # "-")

\* C3 amended: whatever the source, a completed temp1_input query produces an int, as
\* decimal text followed by exactly one newline, and returns that text's length; the int
\* is negative only when the source is a file whose text begins with '-'
C3_IntLine ==
    InputDone(1) =>
        /\ IsIntLine(res[1].buf)
        /\ res[1].rv = Len(res[1].buf)
        /\ res[1].buf[1] = "-" => (srcKind = "file" /\ srcContent # <<>> /\ srcContent[1] = "-")

C3_Witness ==
    /\ InputDone(1)
    /\ srcKind = "file"
    /\ srcContent = <<"-", "4", "\n">>
    /\ res[1].buf = <<"-", "4", "\n">>

----------------------------------------------------------------------------
(* C5 *)

\* C5 as stated: when the source can be opened and its content is not a well-formed
\* integer (or cannot be read), a completed temp1_input query returns 0 and no error
C5_NonNumericContent ==
    (InputDone(1) /\ srcKind \in {"file", "dir"}
       /\ ~(srcKind = "file" /\ WellFormed(srcContent)))
        => (res[1].buf = <<"0", "\n">> /\ res[1].rv = 2)

\* C5 amended: when the source can be opened and the read fails, or the first
\* BufSize - 1 = 15 bytes of the content (all that is read) are not a well-formed int, a
\* completed temp1_input query returns 0 and no error
C5_UnparseableRead ==
    (InputDone(1) /\ srcKind \in {"file", "dir"}
       /\ ~(srcKind = "file" /\ WellFormed(FirstBytes(srcContent))
                             /\ InIntRange(FirstBytes(srcContent))))
        => (res[1].buf = <<"0", "\n">> /\ res[1].rv = 2)

C5_Witness ==
    /\ InputDone(1)
    /\ srcKind = "file"
    /\ srcContent = <<"4", "x">>
    /\ res[1].buf = <<"0", "\n">>

----------------------------------------------------------------------------
(* C2 *)

\* C2 as stated: when a registration fails (the hwmon registration in gpu_temp_probe
\* included), gpu_temp_init returns that error; it never returns 0 while the hwmon
\* device is not registered
C2_RegistrationFailurePropagates ==
    phase = "loaded" =>
        /\ initRet = 0
        /\ hwmonRegs = 1
        /\ probed => probeRet = initRet

----------------------------------------------------------------------------
(* C4 *)

\* thread t completes a temp1_input query in this step at the open, which fails
OpenFailedStep(t) ==
    /\ pc[t] = "idle"
    /\ pc'[t] = "idle"
    /\ OpenFails
    /\ res'[t] # res[t]
    /\ res'[t].op = "input"

\* C4: a temp1_input query that finds the source missing or not openable returns "0\n"
\* (length 2, no error code), opens nothing and leaves everything else as it was,
\* whatever earlier queries returned
C4_OpenFailureGivesZero ==
    [][\A t \in Threads :
          OpenFailedStep(t) =>
              /\ res'[t].buf = <<"0", "\n">>
              /\ res'[t].rv = 2
              /\ UNCHANGED <<regVars, srcVars, openFiles, pc, file, fnode, temp_str, ret>>]_vars

C4_Witness ==
    /\ srcKind = "missing"
    /\ InputDone(1)
    /\ res[1].buf = <<"0", "\n">>
    /\ InputDone(2)
    /\ res[2].buf = <<"4","2","0","0","0","\n">>

----------------------------------------------------------------------------
(* C6 *)

Registered == driverRegs + deviceRegs + hwmonRegs > 0

\* C6: the driver, the platform device and the hwmon device are each registered at most
\* once; they become registered only by gpu_temp_init from the unloaded state, become
\* unregistered only by gpu_temp_exit, which is enabled whenever the module is loaded and
\* no show call is in flight; after gpu_temp_exit nothing is registered, and nothing
\* becomes registered again
C6_AttachDetachLeavesNothing ==
    [][/\ driverRegs' \in {0, 1} /\ deviceRegs' \in {0, 1} /\ hwmonRegs' \in {0, 1}
       /\ (~Registered /\ Registered') => (phase = "unloaded" /\ phase' = "loaded")
       /\ (Registered /\ ~Registered') => (phase = "loaded" /\ phase' = "removed")
       /\ phase' = "removed" => ~Registered'
       /\ phase = "removed" => phase' = "removed"
       /\ (phase = "loaded" /\ \A t \in Threads : pc[t] = "idle") => ENABLED gpu_temp_exit]_vars

C6_Witness ==
    /\ phase = "removed"
    /\ ~Registered
    /\ hwmon_dev = DevPtr
    /\ InputDone(1)
    /\ res[1].buf = <<"4","2","0","0","0","\n">>

----------------------------------------------------------------------------
(* C7 *)

\* thread t completes a temp1_max or temp1_crit query in this step
ThresholdStep(t) ==
    /\ pc[t] = "idle"
    /\ pc'[t] = "idle"
    /\ res'[t] # res[t]
    /\ res'[t].op \in {"max", "crit"}

\* C7: a temp1_max query returns "90000\n" and a temp1_crit query "95000\n" (length 6, no
\* error code), whatever the source holds and whatever was queried before, and the query
\* changes nothing but the caller's result
C7_ThresholdsConstant ==
    [][\A t \in Threads :
          ThresholdStep(t) =>
              /\ res'[t].op = "max" => res'[t].buf = <<"9","0","0","0","0","\n">>
              /\ res'[t].op = "crit" => res'[t].buf = <<"9","5","0","0","0","\n">>
              /\ res'[t].rv = 6
              /\ \A u \in Threads \ {t} : res'[u] = res[u]
              /\ UNCHANGED <<regVars, srcVars, openFiles, pc, file, fnode, temp_str, ret>>]_vars

C7_Witness ==
    /\ res[1] = [op |-> "max", buf |-> <<"9","0","0","0","0","\n">>, rv |-> 6]
    /\ res[2] = [op |-> "crit", buf |-> <<"9","5","0","0","0","\n">>, rv |-> 6]
    /\ srcKind = "file"
    /\ srcContent = <<"x">>

----------------------------------------------------------------------------
(* C8 *)

Holders == {t \in Threads : pc[t] \in {"opened", "read"}}

\* C8: the open handles are exactly those of the temp1_input calls in flight between
\* their open and their close, one each and all distinct; a thread outside such a call
\* holds none, so with no call in flight no handle is open
C8_HandlesBalanced ==
    /\ openFiles = {file[t] : t \in Holders}
    /\ \A t, u \in Holders : file[t] = file[u] => t = u
    /\ \A t \in Threads \ Holders : file[t] = 0
    /\ \A t \in Holders : file[t] # 0

C8_Witness ==
    /\ Holders = {}
    /\ openFiles = {}
    /\ srcKind = "dir"
    /\ InputDone(1)
    /\ res[1].buf = <<"1","2","3","4","5","\n">>
    /\ InputDone(2)
    /\ res[2].buf = <<"4","2","0","0","0","\n">>

----------------------------------------------------------------------------
(* C9 *)

\* thread t takes a step of temp1_input_show
InputStep(t) ==
    \/ pc'[t] # pc[t]
    \/ (res'[t] # res[t] /\ res'[t].op = "input")

\* C9: a step of one temp1_input call leaves the source, the registrations and every
\* other thread's locals and result untouched; its read stores the first BufSize - 1
\* bytes its own handle's file holds at that moment; and its result is the reading of
\* the bytes it stored (0 after a failed or empty read), whatever other calls do and
\* whatever earlier calls returned
C9_QueriesIndependent ==
    [][\A t \in Threads :
          InputStep(t) =>
              /\ UNCHANGED <<regVars, srcVars>>
              /\ \A u \in Threads \ {t} :
                    /\ pc'[u] = pc[u] /\ file'[u] = file[u] /\ fnode'[u] = fnode[u]
                    /\ temp_str'[u] = temp_str[u] /\ ret'[u] = ret[u] /\ res'[u] = res[u]
              /\ (pc[t] = "opened" /\ NodeOf(t).kind = "file") =>
                    /\ temp_str'[t] = FirstBytes(NodeOf(t).content)
                    /\ ret'[t] = Len(temp_str'[t])
              /\ pc[t] = "read" =>
                    res'[t].buf = IF ret[t] > 0 THEN ReadingOf(temp_str[t]) ELSE <<"0", "\n">>]_vars

C9_Witness ==
    /\ srcKind = "file"
    /\ srcContent = <<>>
    /\ pc[2] = "read"
    /\ temp_str[2] = <<"x">>
    /\ InputDone(1)
    /\ res[1].buf = <<"4","2","0","0","0","\n">>

----------------------------------------------------------------------------
(* C10 *)

\* C10: whenever gpu_temp_init has returned an error, neither the driver, the platform
\* device nor the hwmon device is registered, and gpu_temp_probe was never called
C10_FailedInitLeavesNothing ==
    (phase # "unloaded" /\ initRet # 0) =>
        /\ phase = "failed"
        /\ driverRegs = 0
        /\ deviceRegs = 0
        /\ hwmonRegs = 0
        /\ ~probed
        /\ hwmon_dev = NullPtr

C10_Witness ==
    /\ phase = "failed"
    /\ IS_ERR(pdev)
    /\ initRet = PTR_ERR(pdev)
    /\ driverRegs = 0

====
